---- MODULE Spec2Model ----
(***************************************************************************)
(* A model of the cachette Cache class (src/src/memoizer.ts, lines 264 to  *)
(* 444): an insertion-ordered Map of CacheObject entries, constructor      *)
(* options, the setInterval prune callback, and the promise continuation   *)
(* that pop registers with `.then`; and of the memoizer (lines 3 to 23),   *)
(* which keeps a Cache of its own.                                         *)
(*                                                                         *)
(* JavaScript values are records [type, v].  A number carries its value,   *)
(* a string carries a code (0 is the empty string '', 1 is a one-letter    *)
(* string, larger codes are JSON texts, see JSONstringify), a boolean      *)
(* carries 0 or 1.  An object carries its reference: r > 0 is an object    *)
(* of the caller, whose content heap[r] the caller can change; a negative  *)
(* reference is a copy made by cloneDeep, see there.                       *)
(***************************************************************************)
EXTENDS Integers, Sequences, FiniteSets, TLC

VARIABLES
    options,    \* this.options, fixed by the constructor
    map,        \* this.map: the entries in insertion order
    now,        \* the value Date.now() returns
    pending,    \* the `.then` callbacks of pop that have not run yet
    last,       \* the most recent call and how its promise settled
    history,    \* keys added, in order, since the cache was empty
    heap,       \* the content of each object of the caller
    memo        \* the memoized function: its latest call, the calls of fn

vars == <<options, map, now, pending, last, history, heap, memo>>

---------------------------------------------------------------------------
(* Bounds of the model *)

MaxLimit == 2        \* the largest limit a cache is constructed with
MaxDuration == 1     \* the lifetime.duration a cache is constructed with
MaxPending == 1      \* pop callbacks waiting at a time
MaxPops == 2         \* the same, where pops issued back to back are studied
NumKeys == 2         \* keys in use where the limit is not studied
MaxCalls == 2        \* invocations of a memoized fn counted per argument
NumObjects == 1      \* objects of the caller

MaxTime == MaxDuration + 1

---------------------------------------------------------------------------
(* JavaScript values *)

Undefined == [type |-> "undefined", v |-> 0]
Null == [type |-> "null", v |-> 0]
Num(n) == [type |-> "number", v |-> n]
Str(c) == [type |-> "string", v |-> c]
Obj(r) == [type |-> "object", v |-> r]
Bool(b) == [type |-> "boolean", v |-> IF b THEN 1 ELSE 0]

\* ToBoolean, as used by `||`, `!`, `&&` and `if`
Truthy(x) ==
    CASE x.type \in {"undefined", "null"} -> FALSE
      [] x.type \in {"number", "string", "boolean"} -> x.v # 0
      [] OTHER -> TRUE

\* a || b
Or(a, b) == IF Truthy(a) THEN a ELSE b

\* x === undefined || x === null
Nullish(x) == x.type \in {"undefined", "null"}

\* x.toString().length for a non-nullish x
ToStringLength(x) ==
    CASE x.type = "string" -> x.v
      [] x.type = "object" -> 15
      [] OTHER -> 1

\* The contents an object can have
Contents == {0, 1}

\* The content of an object now.  A copy made by cloneDeep is an object
\* that only the cache holds: it keeps the content it was made with.
Content(x) == IF x.v > 0 THEN heap[x.v] ELSE (-x.v) % 2

\* a faulty variant of cloneDeep: the object itself is handed back
cloneShallow(x) == x

\* lodash cloneDeep: a distinct object with the same content
cloneDeep(x) == IF x.type = "object" THEN Obj(-(2 * x.v + Content(x))) ELSE x

\* JSON.stringify: a (non-empty) string, different for values that differ.
\* The text of an object is that of its content at this moment.
JSONstringify(x) ==
    CASE x.type = "object" -> Str(2 + Content(x))
      [] x.type = "number" -> Str(4 + 2 * x.v)
      [] OTHER -> Str(5 + 2 * x.v)

---------------------------------------------------------------------------
(* Map<Key, CacheObject>: entries in insertion order *)

MapHas(m, key) == \E i \in 1..Len(m) : m[i].key = key

MapIndex(m, key) == CHOOSE i \in 1..Len(m) : m[i].key = key

MapGet(m, key) == m[MapIndex(m, key)]

\* Map.set keeps the position of a key that is already there
MapSet(m, key, obj) ==
    IF MapHas(m, key)
    THEN [m EXCEPT ![MapIndex(m, key)] = obj]
    ELSE Append(m, obj)

MapDelete(m, key) ==
    IF MapHas(m, key)
    THEN LET i == MapIndex(m, key)
         IN SubSeq(m, 1, i - 1) \o SubSeq(m, i + 1, Len(m))
    ELSE m

MapKeys(m) == {m[i].key : i \in 1..Len(m)}

---------------------------------------------------------------------------
(* What the model records about calls *)

\* The object a caller passes as addOptions.  add reads addObjectAs and
\* throwOnExist; a caller can also pass duplicateAddThrows and lifetime,
\* the properties that the README's tests pass.
AddOptions(addObjectAs, throwOnExist, duplicateAddThrows, lifetime) ==
    [addObjectAs |-> addObjectAs, throwOnExist |-> throwOnExist,
     duplicateAddThrows |-> duplicateAddThrows, lifetime |-> lifetime]

NoAddOptions == AddOptions("undefined", Undefined, Undefined, Undefined)

\* The most recent call: its arguments, whether its key was in the map when
\* it was invoked, and how its promise settles ("pending": the promise of a
\* pop whose `.then` callback has not run yet; ret is what it will resolve to).
\* snap is the content that the argument, if an object, had at the call.
Call(op, key, arg, addOptions, throwOnEmpty, existed, status, err, ret) ==
    [op |-> op, key |-> key, arg |-> arg, addOptions |-> addOptions,
     throwOnEmpty |-> throwOnEmpty, existed |-> existed,
     status |-> status, err |-> err, ret |-> ret,
     snap |-> IF arg.type = "object" THEN Content(arg) ELSE 0]

NoCall(op) ==
    Call(op, Undefined, Undefined, NoAddOptions, Undefined, FALSE,
         "resolved", "", Undefined)

Clean == [clean |-> TRUE, adds |-> <<>>]
Tainted == [clean |-> FALSE, adds |-> <<>>]

\* history after an add: it grows while every call since the cache was empty
\* is a resolved add of a key not added before
Recorded(key, resolved) ==
    IF /\ resolved
       /\ history.clean
       /\ Len(history.adds) <= MaxLimit
       /\ \A i \in 1..Len(history.adds) : history.adds[i] # key
    THEN [clean |-> TRUE, adds |-> Append(history.adds, key)]
    ELSE Tainted

---------------------------------------------------------------------------
(* constructor *)

\* The memoized function before its first call.  calls counts, per
\* argument, the invocations of fn; first keeps, per argument, what the
\* first call that resolved returned.
NoMemo ==
    [args |-> Undefined, status |-> "new", ret |-> Undefined,
     calls |-> <<>>, first |-> <<>>]

Cache(opts) ==
    /\ options = opts
    /\ map = <<>>
    /\ now = 0
    /\ pending = <<>>
    /\ heap = [r \in 1..NumObjects |-> 0]
    /\ last = NoCall("new")
    /\ history = Clean
    /\ memo = NoMemo

\* a faulty variant of TimerRunning: setInterval is called in any case
TimerAlways == TRUE

\* the constructor calls setInterval only for a truthy lifetime.duration
TimerRunning == Truthy(options.lifetime.duration)

---------------------------------------------------------------------------
(* add *)

\* addOptions.addObjectAs || this.options.addObjectsAs || 'byReference'
addAsOf(addOptions) ==
    IF addOptions.addObjectAs # "undefined" THEN addOptions.addObjectAs
    ELSE IF options.addObjectsAs # "undefined" THEN options.addObjectsAs
    ELSE "byReference"

\* addOptions.throwOnExist || this.options.duplicateAddThrows
throwIfKeyExistsOf(addOptions) ==
    Or(addOptions.throwOnExist, options.duplicateAddThrows)

\* a faulty variant of EmptyKey: the empty string passes as a key
EmptyKeyNullish(key) == Nullish(key)

EmptyKey(key) == Nullish(key) \/ ToStringLength(key) = 0

\* the second branch tests the key's length again, not the value's
EmptyValue(key, value) == Nullish(value) \/ ToStringLength(key) = 0

\* a faulty variant of LimitReached: room is made only once the limit is
\* already exceeded
LimitExceededOnly(m) ==
    options.limit.type = "number" /\ options.limit.v < Len(m)

\* this.options.limit === this.map.size
LimitReached(m) == options.limit = Num(Len(m))

\* a faulty variant of RemoveFirst: the entry inserted last is removed
RemoveNewest(m) == MapDelete(m, m[Len(m)].key)

\* const [key] = Array.from(this.map)[0]; this.map.delete(key)
RemoveFirst(m) == MapDelete(m, m[1].key)

\* the value of the CacheObject that is stored
StoredValue(value, addAs) ==
    IF value.type = "object"
    THEN CASE addAs = "clone" -> cloneDeep(value)
           [] addAs = "stringify" -> JSONstringify(value)
           [] OTHER -> value
    ELSE value

add(key, value, addOptions) ==
    LET addAs == addAsOf(addOptions)
        throwIfKeyExists == throwIfKeyExistsOf(addOptions)
        settled(existed, status, err) ==
            /\ last' = Call("add", key, value, addOptions, Undefined, existed,
                            status, err, Undefined)
            /\ history' = Recorded(key, status = "resolved")
    IN
    /\ UNCHANGED <<options, now, pending, heap>>
    /\ IF EmptyKey(key)
       THEN /\ settled(FALSE, "rejected", "Empty key")
            /\ UNCHANGED map
       ELSE IF EmptyValue(key, value)
       THEN /\ settled(MapHas(map, key), "rejected", "Empty value")
            /\ UNCHANGED map
       ELSE
         LET existed == MapHas(map, key)
             \* reject(err) is not followed by a return: the executor goes on
             duplicate == Truthy(throwIfKeyExists) /\ existed
             cacheObject == [key |-> key,
                             value |-> StoredValue(value, addAs),
                             timestamp |-> now]
         IN
         IF LimitReached(map) /\ Len(map) = 0
         THEN \* Array.from(this.map)[0] is undefined: destructuring it throws,
              \* and the promise executor turns the throw into a rejection
              /\ settled(existed, "rejected", "TypeError")
              /\ UNCHANGED map
         ELSE
              /\ map' = MapSet(IF LimitReached(map) THEN RemoveFirst(map) ELSE map,
                               key, cacheObject)
              /\ IF duplicate
                 THEN settled(existed, "rejected", "add failed")
                 ELSE settled(existed, "resolved", "")

---------------------------------------------------------------------------
(* get, has *)

\* entry?.value || undefined
ValueOrUndefined(m, key) ==
    IF MapHas(m, key) THEN Or(MapGet(m, key).value, Undefined) ELSE Undefined

get(key, throwOnEmpty) ==
    LET _throwOnEmpty == Or(options.throwOnEmpty, throwOnEmpty)
        existed == MapHas(map, key)
    IN
    /\ UNCHANGED <<options, map, now, pending, history, heap>>
    /\ IF Truthy(_throwOnEmpty) /\ ~existed
       THEN last' = Call("get", key, Undefined, NoAddOptions, throwOnEmpty,
                         existed, "rejected", "get failed", Undefined)
       ELSE last' = Call("get", key, Undefined, NoAddOptions, throwOnEmpty,
                         existed, "resolved", "", ValueOrUndefined(map, key))

has(key) ==
    /\ UNCHANGED <<options, map, now, pending, history, heap>>
    /\ last' = Call("has", key, Undefined, NoAddOptions, Undefined,
                    MapHas(map, key), "resolved", "", Bool(MapHas(map, key)))

---------------------------------------------------------------------------
(* clear *)

\* a faulty variant of clear: only the first entry is removed
clearFirst ==
    /\ map' = IF map = <<>> THEN map ELSE Tail(map)
    /\ last' = NoCall("clear")
    /\ history' = Tainted
    /\ UNCHANGED <<options, now, pending, heap, memo>>

clear ==
    /\ map' = <<>>
    /\ last' = NoCall("clear")
    /\ history' = IF pending = <<>> THEN Clean ELSE Tainted
    /\ UNCHANGED <<options, now, pending, heap, memo>>

---------------------------------------------------------------------------
(* pop *)

\* The executor of pop.  For a key that is there it calls get, whose executor
\* reads the value at once, and registers the removal with `.then`: the
\* removal runs later, as a microtask.
pop(key, throwOnEmpty) ==
    /\ UNCHANGED <<options, map, now, heap, memo>>
    /\ IF ~MapHas(map, key)
       THEN /\ UNCHANGED <<pending, history>>
            /\ IF Truthy(Or(throwOnEmpty, options.throwOnEmpty))
               THEN last' = Call("pop", key, Undefined, NoAddOptions, throwOnEmpty,
                                 FALSE, "rejected", "Pop Error", Undefined)
               ELSE last' = Call("pop", key, Undefined, NoAddOptions, throwOnEmpty,
                                 FALSE, "resolved", "", Undefined)
       ELSE /\ pending' = Append(pending,
                                 [key |-> key, value |-> ValueOrUndefined(map, key)])
            /\ history' = Tainted
            /\ last' = Call("pop", key, Undefined, NoAddOptions, throwOnEmpty,
                            TRUE, "pending", "", ValueOrUndefined(map, key))

\* (value) => { this.map.delete(key); resolve(value); }
popThen ==
    /\ pending # <<>>
    /\ map' = MapDelete(map, Head(pending).key)
    /\ pending' = Tail(pending)
    /\ last' = Call("popThen", Head(pending).key, Undefined, NoAddOptions,
                    Undefined, MapHas(map, Head(pending).key),
                    "resolved", "", Head(pending).value)
    /\ history' = Tainted
    /\ UNCHANGED <<options, now, heap, memo>>

---------------------------------------------------------------------------
(* prune *)

\* a faulty variant of pruneLoop: the comparison is the wrong way round,
\* entries that are not expired are deleted and the expired ones kept
RECURSIVE pruneLoopReversed(_, _, _, _)
pruneLoopReversed(i, entries, expired, m) ==
    IF i < Len(m)
    THEN IF entries[i + 1].timestamp > expired
         THEN pruneLoopReversed(i + 1, entries, expired,
                                MapDelete(m, entries[i + 1].key))
         ELSE pruneLoopReversed(i + 1, entries, expired, m)
    ELSE m

\* for (let i = 0; i < this.map.size; i++): entries is the snapshot taken
\* before the loop, this.map.size is read again at every iteration
RECURSIVE pruneLoop(_, _, _, _)
pruneLoop(i, entries, expired, m) ==
    IF i < Len(m)
    THEN IF entries[i + 1].timestamp < expired
         THEN pruneLoop(i + 1, entries, expired, MapDelete(m, entries[i + 1].key))
         ELSE pruneLoop(i + 1, entries, expired, m)
    ELSE m

\* The setInterval callback: a task of its own, so it runs only when no
\* promise callback is waiting.
prune ==
    /\ TimerRunning
    /\ pending = <<>>
    /\ IF ~Truthy(options.lifetime.duration)
       THEN UNCHANGED map
       ELSE map' = pruneLoop(0, map, now - Or(options.lifetime.duration, Num(1000)).v, map)
    /\ last' = NoCall("prune")
    /\ history' = Tainted
    /\ UNCHANGED <<options, now, pending, heap, memo>>

\* Date.now() moves on
Tick ==
    /\ now < MaxTime
    /\ now' = now + 1
    /\ UNCHANGED <<options, map, pending, last, history, heap, memo>>

---------------------------------------------------------------------------
(* memoizer *)

CallsOf(args) == IF args \in DOMAIN memo.calls THEN memo.calls[args] ELSE 0

\* memo after a call with args that settled with status and ret; invoked
\* tells whether the call invoked fn
Memoized(args, status, ret, invoked) ==
    [args |-> args, status |-> status, ret |-> ret,
     calls |-> IF invoked
               THEN (args :> (CallsOf(args) + 1)) @@ memo.calls
               ELSE memo.calls,
     first |-> IF status = "resolved" /\ args \notin DOMAIN memo.first
               THEN (args :> ret) @@ memo.first
               ELSE memo.first]

\* One awaited call of the function that memoizer(fn) returns, on the cache
\* that the closure holds; result is what fn(args) computes if it is
\* invoked now.  No other code can reach this cache, so the calls of has,
\* get and add that the function awaits are one step.
memoized(args, result) ==
    IF ~Truthy(args)
    THEN \* throw new Error('memoized functions must have arguments')
         /\ memo' = Memoized(args, "rejected", Undefined, FALSE)
         /\ UNCHANGED <<options, map, now, pending, last, history, heap>>
    ELSE LET key == JSONstringify(args) IN
         IF MapHas(map, key)
         THEN \* await cache.has(key) is true: return await cache.get(key)
              /\ get(key, Undefined)
              /\ memo' = Memoized(args, last'.status, last'.ret, FALSE)
         ELSE \* const result = fn(args); await cache.add(key, result)
              /\ CallsOf(args) < MaxCalls
              /\ add(key, result, NoAddOptions)
              /\ memo' = Memoized(args, last'.status,
                                  IF last'.status = "resolved"
                                  THEN result ELSE Undefined,
                                  TRUE)

---------------------------------------------------------------------------
(* The callers' inputs *)

KeysUpTo(n) == {Num(i) : i \in 1..n}
Primitives == {Num(0), Num(1), Str(0), Str(1)}
Objects == {Obj(r) : r \in 1..NumObjects}
Modes == {"undefined", "clone", "stringify", "byReference"}
Flags == {Undefined, Bool(TRUE), Bool(FALSE)}

\* keys and values that add refuses
EmptyInputs ==
    {<<Str(0), Str(1)>>, <<Null, Str(1)>>, <<Num(1), Null>>,
     <<Num(1), Undefined>>, <<Null, Null>>}

Options(limits, flags, modes, durations) ==
    [limit : limits, duplicateAddThrows : flags, throwOnEmpty : flags,
     addObjectsAs : modes, lifetime : [duration : durations]]

\* add, get and has are called by the program that holds the cache, or by
\* the memoized function on the cache that it holds.  These are the calls
\* of the former.

\* add of a string or a number: the storage mode is not read for these
AddPrimitive(keys, values) ==
    /\ \E key \in keys, value \in values, throwOnExist \in {Undefined, Bool(TRUE)} :
           add(key, value, AddOptions("undefined", throwOnExist, Undefined, Undefined))
    /\ UNCHANGED memo

AddObject(keys) ==
    /\ \E key \in keys, value \in Objects, addObjectAs \in Modes :
           add(key, value, AddOptions(addObjectAs, Undefined, Undefined, Undefined))
    /\ UNCHANGED memo

AddEmpty ==
    /\ \E kv \in EmptyInputs : add(kv[1], kv[2], NoAddOptions)
    /\ UNCHANGED memo

AddPlain(keys, values) ==
    /\ \E key \in keys, value \in values : add(key, value, NoAddOptions)
    /\ UNCHANGED memo

Get(keys, flags) ==
    /\ \E key \in keys, throwOnEmpty \in flags : get(key, throwOnEmpty)
    /\ UNCHANGED memo

Has(keys) ==
    /\ \E key \in keys : has(key)
    /\ UNCHANGED memo

\* add with the per-call option that the README's test 'add throws on
\* duplicate (overridden at cache level)' passes
AddOverride(keys, values, flags) ==
    /\ \E key \in keys, value \in values, duplicateAddThrows \in flags :
           add(key, value,
               AddOptions("undefined", Undefined, duplicateAddThrows, Undefined))
    /\ UNCHANGED memo

\* add with the per-call option that the README's test 'expires items with
\* custom lifetime' passes
AddLifetime(keys, values, lifetimes) ==
    /\ \E key \in keys, value \in values, lifetime \in lifetimes :
           add(key, value, AddOptions("undefined", Undefined, Undefined, lifetime))
    /\ UNCHANGED memo

\* the caller changes a property of one of its objects
Mutate ==
    /\ \E r \in 1..NumObjects, c \in Contents :
           /\ c # heap[r]
           /\ heap' = [heap EXCEPT ![r] = c]
    /\ UNCHANGED <<options, map, now, pending, last, history, memo>>

\* the callbacks that wait are bounded by maxPending
Pop(keys, flags, maxPending) ==
    /\ Len(pending) < maxPending
    /\ \E key \in keys, throwOnEmpty \in flags : pop(key, throwOnEmpty)

---------------------------------------------------------------------------
(* SpecValues: a cache without limit and without lifetime, under every   *)
(* storage mode, called with every kind of value                        *)

InitValues ==
    \E opts \in Options({Undefined}, {Undefined}, Modes, {Undefined}) : Cache(opts)

NextValues ==
    \/ AddPlain(KeysUpTo(NumKeys), Primitives)
    \/ AddObject(KeysUpTo(NumKeys))
    \/ AddEmpty
    \/ Get(KeysUpTo(NumKeys), {Undefined})
    \/ Has(KeysUpTo(NumKeys))
    \/ Pop(KeysUpTo(NumKeys), {Undefined}, MaxPending)
    \/ popThen
    \/ clear

SpecValues == InitValues /\ [][NextValues]_vars

---------------------------------------------------------------------------
(* SpecPolicy: duplicateAddThrows and throwOnEmpty, set by the           *)
(* constructor or per call, on caches with limit 0..MaxLimit or none     *)

InitPolicy ==
    \E opts \in Options({Undefined} \cup {Num(n) : n \in 0..MaxLimit},
                        {Undefined, Bool(TRUE)}, {"undefined"}, {Undefined}) :
        Cache(opts)

NextPolicy ==
    \/ AddPrimitive(KeysUpTo(NumKeys), {Num(0), Str(1)})
    \/ AddEmpty
    \/ Get(KeysUpTo(NumKeys), Flags)
    \/ Has(KeysUpTo(NumKeys))
    \/ Pop(KeysUpTo(NumKeys), Flags, MaxPending)
    \/ popThen
    \/ clear

SpecPolicy == InitPolicy /\ [][NextPolicy]_vars

---------------------------------------------------------------------------
(* SpecLimit: caches with a limit of 1..MaxLimit, with and without a     *)
(* lifetime.  Adds use one key more than the largest limit; the          *)
(* duplicate policy is given per call.  Reads and pops use the first and *)
(* the last key (the code treats all keys alike).                        *)

LimitKeys == KeysUpTo(MaxLimit + 1)
ProbeKeys == {Num(1), Num(MaxLimit + 1)}

InitLimit ==
    \E opts \in Options({Num(n) : n \in 1..MaxLimit}, {Undefined},
                        {"undefined"}, {Undefined, Num(MaxDuration)}) :
        Cache(opts)

NextLimit ==
    \/ AddPrimitive(LimitKeys, {Str(1)})
    \/ AddPlain({Null}, {Str(1)})
    \/ Get(ProbeKeys, {Undefined})
    \/ Has(ProbeKeys)
    \/ Pop(ProbeKeys, {Undefined}, MaxPending)
    \/ popThen
    \/ clear
    \/ prune
    \/ Tick

SpecLimit == InitLimit /\ [][NextLimit]_vars

---------------------------------------------------------------------------
(* SpecLifetime: caches with lifetime.duration = MaxDuration, called     *)
(* with truthy values                                                    *)

InitLifetime ==
    \E opts \in Options({Undefined}, {Undefined, Bool(TRUE)}, {"undefined"},
                        {Num(MaxDuration)}) :
        /\ opts.duplicateAddThrows = Undefined
        /\ Cache(opts)

NextLifetime ==
    \/ AddPlain(KeysUpTo(NumKeys), {Num(1), Str(1)})
    \/ Get(KeysUpTo(NumKeys), Flags)
    \/ Has(KeysUpTo(NumKeys))
    \/ Pop(KeysUpTo(NumKeys), Flags, MaxPending)
    \/ popThen
    \/ clear
    \/ prune
    \/ Tick

SpecLifetime == InitLifetime /\ [][NextLifetime]_vars

---------------------------------------------------------------------------
(* SpecPop: calls issued while the callbacks of earlier pops wait        *)

InitPop ==
    \E opts \in Options({Undefined}, {Undefined}, {"undefined"}, {Undefined}) :
        Cache(opts)

NextPop ==
    \/ AddPlain(KeysUpTo(NumKeys), {Str(1)})
    \/ Get(KeysUpTo(NumKeys), {Undefined})
    \/ Has(KeysUpTo(NumKeys))
    \/ Pop(KeysUpTo(NumKeys), {Undefined}, MaxPops)
    \/ popThen
    \/ clear

SpecPop == InitPop /\ [][NextPop]_vars

---------------------------------------------------------------------------
(* SpecOverride: the duplicate policy given per call as                  *)
(* duplicateAddThrows, on caches built with and without the policy       *)

InitOverride ==
    \E opts \in Options({Undefined}, {Undefined, Bool(TRUE)}, {"undefined"},
                        {Undefined}) :
        /\ opts.throwOnEmpty = Undefined
        /\ Cache(opts)

NextOverride ==
    \/ AddOverride(KeysUpTo(NumKeys), {Num(1), Str(1)}, {Undefined, Bool(TRUE)})
    \/ Get(KeysUpTo(NumKeys), {Undefined})
    \/ Has(KeysUpTo(NumKeys))
    \/ Pop(KeysUpTo(NumKeys), {Undefined}, MaxPending)
    \/ popThen
    \/ clear

SpecOverride == InitOverride /\ [][NextOverride]_vars

---------------------------------------------------------------------------
(* SpecMemoizer: awaited calls of one memoized function, whose fn can    *)
(* return a different value at every invocation                          *)

MemoArgs == {Undefined, Num(0), Num(1), Num(2), Str(1)}
MemoResults == {Num(0), Num(1), Str(0), Str(1)} \cup Objects

\* const cache = new Cache()
InitMemoizer ==
    \E opts \in Options({Undefined}, {Undefined}, {"undefined"}, {Undefined}) :
        Cache(opts)

NextMemoizer ==
    \E args \in MemoArgs, result \in MemoResults : memoized(args, result)

SpecMemoizer == InitMemoizer /\ [][NextMemoizer]_vars

---------------------------------------------------------------------------
(* SpecNoExpiry: caches built without lifetime.duration, with duration 0 *)
(* and with duration MaxDuration, while the clock advances               *)

InitNoExpiry ==
    \E opts \in Options({Undefined, Num(MaxLimit)}, {Undefined}, {"undefined"},
                        {Undefined, Num(0), Num(MaxDuration)}) :
        Cache(opts)

NextNoExpiry ==
    \/ AddPlain(KeysUpTo(NumKeys), {Str(1)})
    \/ Get(KeysUpTo(NumKeys), {Undefined})
    \/ Pop(KeysUpTo(NumKeys), {Undefined}, MaxPending)
    \/ popThen
    \/ clear
    \/ prune
    \/ Tick

SpecNoExpiry == InitNoExpiry /\ [][NextNoExpiry]_vars

---------------------------------------------------------------------------
(* SpecValidation: adds with empty keys and empty values, among adds     *)
(* that are accepted, on caches with a limit of 1..MaxLimit or none      *)

InitValidation ==
    \E opts \in Options({Undefined} \cup {Num(n) : n \in 1..MaxLimit},
                        {Undefined}, {"undefined"}, {Undefined}) :
        /\ opts.throwOnEmpty = Undefined
        /\ Cache(opts)

NextValidation ==
    \/ AddPlain(KeysUpTo(NumKeys), {Str(0), Str(1)})
    \/ AddEmpty
    \/ Get(KeysUpTo(NumKeys), {Undefined})
    \/ clear

SpecValidation == InitValidation /\ [][NextValidation]_vars

---------------------------------------------------------------------------
(* SpecStorage: objects added under every storage mode, given by the     *)
(* constructor or per call, and changed by the caller before and after.  *)
(* One key is in use: the storage mode does not read the key.            *)

StorageKeys == {Num(1)}

InitStorage ==
    \E opts \in Options({Undefined}, {Undefined}, Modes, {Undefined}) : Cache(opts)

NextStorage ==
    \/ AddObject(StorageKeys)
    \/ Mutate
    \/ Get(StorageKeys, {Undefined})
    \/ clear

SpecStorage == InitStorage /\ [][NextStorage]_vars

---------------------------------------------------------------------------
(* SpecPresence: caches without lifetime, with a limit of 1..MaxLimit or *)
(* none; adds (accepted, refused as duplicates, refused for a null key)  *)
(* of one key more than the largest limit, has of every key, pops,       *)
(* clears                                                                *)

InitPresence ==
    \E opts \in Options({Undefined} \cup {Num(n) : n \in 1..MaxLimit},
                        {Undefined}, {"undefined"}, {Undefined}) :
        /\ opts.throwOnEmpty = Undefined
        /\ Cache(opts)

NextPresence ==
    \/ AddPrimitive(LimitKeys, {Str(1)})
    \/ AddPlain({Null}, {Str(1)})
    \/ Has(LimitKeys)
    \/ Pop(LimitKeys, {Undefined}, MaxPending)
    \/ popThen
    \/ clear

SpecPresence == InitPresence /\ [][NextPresence]_vars

---------------------------------------------------------------------------
(* SpecEntryLifetime: caches with lifetime.duration MaxDuration or       *)
(* MaxDuration + 1, and adds that give either as their own lifetime      *)

Lifetimes == {Num(MaxDuration), Num(MaxDuration + 1)}

InitEntryLifetime ==
    \E opts \in Options({Undefined}, {Undefined}, {"undefined"}, Lifetimes) :
        /\ opts.throwOnEmpty = Undefined
        /\ Cache(opts)

NextEntryLifetime ==
    \/ AddLifetime(KeysUpTo(NumKeys), {Str(1)}, {Undefined} \cup Lifetimes)
    \/ Get(KeysUpTo(NumKeys), {Undefined})
    \/ clear
    \/ prune
    \/ Tick

SpecEntryLifetime == InitEntryLifetime /\ [][NextEntryLifetime]_vars

---------------------------------------------------------------------------
(* SpecEventual: a cache with lifetime.duration = MaxDuration whose      *)
(* timer keeps firing.  The event loop runs every promise callback that  *)
(* waits (weak fairness of popThen) and runs the setInterval callback    *)
(* again and again, each time once no promise callback waits (strong     *)
(* fairness of prune: a pop that is issued disables it for a while).     *)
(* Each pop is issued when no callback waits: a caller that keeps a      *)
(* promise callback waiting for ever starves every timer, and then the   *)
(* timer does not keep firing.                                           *)

InitEventual ==
    \E opts \in Options({Undefined}, {Undefined}, {"undefined"},
                        {Num(MaxDuration)}) :
        /\ opts.throwOnEmpty = Undefined
        /\ Cache(opts)

NextEventual ==
    \/ AddPlain(KeysUpTo(NumKeys), {Str(1)})
    \/ pending = <<>> /\ Pop(KeysUpTo(NumKeys), {Undefined}, MaxPending)
    \/ popThen
    \/ clear
    \/ prune
    \/ Tick

SpecEventual ==
    /\ InitEventual /\ [][NextEventual]_vars
    /\ WF_vars(popThen) /\ SF_vars(prune)

---------------------------------------------------------------------------
(* SpecFifo: a cache without lifetime whose limit, MaxLimit + 1, leaves  *)
(* room to replace a key while two entries are stored and the store is   *)
(* not full; adds of one key more than the limit, while the clock        *)
(* advances                                                              *)

FifoKeys == KeysUpTo(MaxLimit + 2)

InitFifo ==
    \E opts \in Options({Num(MaxLimit + 1)}, {Undefined}, {"undefined"},
                        {Undefined}) :
        /\ opts.throwOnEmpty = Undefined
        /\ Cache(opts)

NextFifo ==
    \/ AddPlain(FifoKeys, {Str(1)})
    \/ clear
    \/ Tick

SpecFifo == InitFifo /\ [][NextFifo]_vars

---------------------------------------------------------------------------
(* Properties *)

NoLimit == options.limit = Undefined
PositiveLimit == options.limit.type = "number" /\ options.limit.v >= 1

\* the call recorded in c stored its value unchanged: a string, a number,
\* or an object under byReference
StoredAsGiven(c) ==
    c.arg.type = "object" => addAsOf(c.addOptions) = "byReference"

\* C1: on a cache with no limit and no lifetime, a get(k) that follows a
\* resolved add(k, v) returns v, for every string, number (0 and ''
\* included) and every object stored byReference.
C1_RoundTrip ==
    [][(/\ NoLimit /\ ~TimerRunning
        /\ last.op = "add" /\ last.status = "resolved" /\ StoredAsGiven(last)
        /\ last'.op = "get" /\ last'.key = last.key)
       => (last'.status = "resolved" /\ last'.ret = last.arg)]_vars

\* C2: with limit N >= 1 and no lifetime, after N+1 resolved adds of
\* pairwise distinct keys to an empty cache the store holds exactly N
\* entries, the first key added is absent and the N others are present.
C2_FifoEviction ==
    (/\ PositiveLimit /\ ~TimerRunning
     /\ history.clean /\ Len(history.adds) = options.limit.v + 1)
    => /\ Len(map) = options.limit.v
       /\ ~MapHas(map, history.adds[1])
       /\ \A i \in 2..Len(history.adds) : MapHas(map, history.adds[i])

\* N+1 distinct keys were added to a cache with the largest limit
C2_Witness ==
    /\ options.limit = Num(MaxLimit) /\ ~TimerRunning
    /\ history.clean /\ Len(history.adds) = MaxLimit + 1
    /\ last.op = "add" /\ last.status = "resolved"

\* C3: with a positive limit N the store never holds more than N entries,
\* whatever calls, callbacks and prune ticks have run.
C3_Capacity == PositiveLimit => Len(map) <= options.limit.v

\* an add was rejected as a duplicate on a full cache that has a prune timer
C3_Witness ==
    /\ PositiveLimit /\ TimerRunning
    /\ Len(map) = options.limit.v /\ Len(map) > 1
    /\ last.op = "add" /\ last.err = "add failed"

\* C4: constructed with duplicateAddThrows: true, add(k, v2) for a key
\* that is present rejects with 'add failed'; constructed without it, the
\* add resolves and the get(k) that follows returns v2.
C4_DuplicatePolicy ==
    [][/\ (/\ last'.op = "add" /\ last'.existed /\ ~Nullish(last'.arg)
           /\ Truthy(options.duplicateAddThrows))
          => (last'.status = "rejected" /\ last'.err = "add failed")
       /\ (/\ last'.op = "add" /\ last'.existed /\ ~Nullish(last'.arg)
           /\ ~Truthy(options.duplicateAddThrows)
           /\ last'.addOptions = NoAddOptions)
          => last'.status = "resolved"
       /\ (/\ last.op = "add" /\ last.existed /\ last.status = "resolved"
           /\ ~Truthy(options.duplicateAddThrows)
           /\ last.addOptions = NoAddOptions
           /\ last'.op = "get" /\ last'.key = last.key)
          => (last'.status = "resolved" /\ last'.ret = last.arg)]_vars

\* C5: an add that is rejected with 'add failed' leaves the store as it was.
C5_RejectedAddMutatesNothing ==
    [][(last'.op = "add" /\ last'.err = "add failed") => map' = map]_vars

Expired(e) == now - e.timestamp > options.lifetime.duration.v

\* C6: with lifetime.duration = D, get, pop and has report an entry older
\* than D as absent, whether or not a prune tick has run, and still return
\* an entry that is not older than D.
C6_EagerExpiry ==
    [][(/\ TimerRunning /\ now' = now
        /\ last'.op \in {"get", "has", "pop"} /\ MapHas(map, last'.key))
       => LET e == MapGet(map, last'.key) IN
          IF Expired(e)
          THEN CASE last'.op = "get" ->
                        \/ last'.status = "rejected"
                        \/ last'.ret = Undefined
                 [] last'.op = "has" -> last'.ret = Bool(FALSE)
                 [] OTHER -> last'.status # "pending"
          ELSE CASE last'.op = "get" ->
                        last'.status = "resolved" /\ last'.ret = e.value
                 [] last'.op = "has" -> last'.ret = Bool(TRUE)
                 [] OTHER -> last'.status = "pending" /\ last'.ret = e.value]_vars

\* the policy in force for a call: the argument if one is given, else the
\* constructor's throwOnEmpty
EffectiveThrow(c) ==
    IF c.throwOnEmpty # Undefined
    THEN Truthy(c.throwOnEmpty)
    ELSE Truthy(options.throwOnEmpty)

\* C7: get on an absent key rejects with 'get failed' iff the policy in
\* force is true, and resolves to undefined otherwise.
C7_GetThrowPolicy ==
    (last.op = "get" /\ ~last.existed)
    => IF EffectiveThrow(last)
       THEN last.status = "rejected" /\ last.err = "get failed"
       ELSE last.status = "resolved" /\ last.ret = Undefined

\* C8: a pop(k) that follows a resolved add(k, v) resolves to v; when its
\* callback has run the key is gone, one entry less is stored, the others
\* are as they were, and the get(k) that follows returns undefined.
C8_PopReturnsAndRemoves ==
    [][/\ (/\ last.op = "add" /\ last.status = "resolved" /\ StoredAsGiven(last)
           /\ last'.op = "pop" /\ last'.key = last.key)
          => (last'.status = "pending" /\ last'.ret = last.arg)
       /\ (/\ last.op = "pop" /\ last.status = "pending"
           /\ last'.op = "popThen")
          => /\ last'.key = last.key /\ last'.ret = last.ret
             /\ ~MapHas(map', last.key)
             /\ Len(map') = Len(map) - 1
             /\ map' = MapDelete(map, last.key)
       /\ (/\ last.op = "popThen"
           /\ last'.op = "get" /\ last'.key = last.key)
          => last'.ret = Undefined]_vars

\* C9: once pop(k) was invoked on a key that is present, a has(k), get(k)
\* or pop(k) invoked next, before the callback of the pop has run, finds
\* the key absent: of two such pops at most one returns the value.
C9_PopAtomic ==
    [][(last.op = "pop" /\ last.status = "pending" /\ last'.key = last.key)
       => /\ last'.op = "has" => last'.ret = Bool(FALSE)
          /\ last'.op = "get" => last'.ret = Undefined
          /\ Len(pending') > Len(pending) => last'.ret = Undefined]_vars

\* C10: constructed with limit: 0, every add of a valid key and value
\* (that the duplicate policy does not refuse) resolves, stores the entry
\* and removes no other.
C10_LimitZeroIsNoLimit ==
    [][(/\ options.limit = Num(0)
        /\ last'.op = "add" /\ last' # last
        /\ ~EmptyKey(last'.key) /\ ~Nullish(last'.arg)
        /\ ~(last'.existed /\ Truthy(throwIfKeyExistsOf(last'.addOptions))))
       => /\ last'.status = "resolved"
          /\ MapHas(map', last'.key)
          /\ MapKeys(map) \subseteq MapKeys(map')]_vars

\* the duplicate policy in force for an add: the per-call
\* duplicateAddThrows if one is given, else the constructor's
DuplicatePolicy(c) ==
    IF c.addOptions.duplicateAddThrows # Undefined
    THEN Truthy(c.addOptions.duplicateAddThrows)
    ELSE Truthy(options.duplicateAddThrows)

\* C11: an add of a valid value for a key that is present rejects with
\* 'add failed' iff the duplicate policy in force is true: the per-call
\* duplicateAddThrows if given, else the constructor's.
C11_PerCallDuplicatePolicy ==
    [][(/\ last'.op = "add" /\ last'.existed /\ ~Nullish(last'.arg)
        /\ last'.addOptions.throwOnExist = Undefined)
       => IF DuplicatePolicy(last')
          THEN last'.status = "rejected" /\ last'.err = "add failed"
          ELSE last'.status = "resolved"]_vars

\* C12: every awaited call of a memoized function with a truthy argument
\* a resolves to the value that the first call with a returned, and fn
\* has been invoked for a exactly once, whatever valid cache value
\* (string, number, 0 and '' included, or object) fn returns.
C12_MemoizerCaches ==
    (Truthy(memo.args) /\ memo.status # "new")
    => /\ memo.status = "resolved"
       /\ memo.ret = memo.first[memo.args]
       /\ memo.calls[memo.args] = 1

\* lifetime.duration is absent, undefined or 0
NoDuration == options.lifetime.duration \in {Undefined, Num(0)}

\* C13: on a cache built without lifetime.duration (absent, undefined or
\* 0) no prune tick runs, elapsed time changes nothing in the store, and
\* a key leaves the store only in the callback of its pop, in a clear or
\* in an add.
C13_NoDurationNoExpiry ==
    [][NoDuration
       => /\ last'.op # "prune"
          /\ now' # now => map' = map
          /\ \A i \in 1..Len(map) :
                ~MapHas(map', map[i].key)
                => \/ last'.op = "popThen" /\ last'.key = map[i].key
                   \/ last'.op = "clear"
                   \/ last'.op = "add"]_vars

\* an entry added at time 0 is in the store of a cache with duration 0
\* when the clock has reached MaxTime
C13_Witness ==
    /\ options.lifetime.duration = Num(0)
    /\ now = MaxTime
    /\ Len(map) > 0 /\ map[1].timestamp = 0

\* the key is null or undefined, or its string form is ''
KeyIsEmpty(key) == key \in {Null, Undefined, Str(0)}

\* C14: add rejects with 'Empty key' when the key is null, undefined or
\* has an empty string form, else with 'Empty value' when the value is null
\* or undefined, and in both cases leaves the store as it was; no other
\* add is rejected with either error.
C14_AddValidation ==
    [][last'.op = "add"
       => IF KeyIsEmpty(last'.key)
          THEN /\ last'.status = "rejected" /\ last'.err = "Empty key"
               /\ map' = map
          ELSE IF last'.arg \in {Null, Undefined}
          THEN /\ last'.status = "rejected" /\ last'.err = "Empty value"
               /\ map' = map
          ELSE last'.err \notin {"Empty key", "Empty value"}]_vars

\* an add with an empty key and an empty value was rejected on a cache
\* that is at its limit
C14_Witness ==
    /\ PositiveLimit /\ Len(map) = options.limit.v
    /\ last.op = "add" /\ last.key = Null /\ last.arg = Null
    /\ last.err = "Empty key"

\* the storage mode in force for an add: the per-call addObjectAs if
\* given, else the constructor's addObjectsAs, else byReference
StorageMode(c) ==
    IF c.addOptions.addObjectAs # "undefined" THEN c.addOptions.addObjectAs
    ELSE IF options.addObjectsAs # "undefined" THEN options.addObjectsAs
    ELSE "byReference"

\* C15: the get(k) that follows a resolved add(k, o) of an object o,
\* whatever the caller did to o in between, returns under clone an object
\* other than o with the content o had at the add, under byReference o
\* itself (with the content o has now), and under stringify the JSON
\* text of the content o had at the add.
C15_StorageModes ==
    [][(/\ last.op = "add" /\ last.status = "resolved"
        /\ last.arg.type = "object"
        /\ last'.op = "get" /\ last'.key = last.key)
       => CASE StorageMode(last) = "clone" ->
                 /\ last'.ret.type = "object"
                 /\ last'.ret # last.arg
                 /\ Content(last'.ret) = last.snap
            [] StorageMode(last) = "stringify" ->
                 last'.ret = Str(2 + last.snap)
            [] OTHER ->
                 /\ last'.ret = last.arg
                 /\ Content(last'.ret) = heap[last.arg.v]]_vars

\* a get returned a copy whose content the caller's object no longer has
C15_Witness ==
    /\ last.op = "get" /\ last.ret.type = "object" /\ last.ret.v < 0
    /\ \E r \in 1..NumObjects :
          last.ret = Obj(-(2 * r + 1 - heap[r]))

\* C16: on a cache without lifetime, a key enters the store only by a
\* resolved add of it and leaves it only in the callback of its pop, in a
\* clear, or when an add of another key evicts it from a full store; it
\* is in the store right after its add resolved and out of it after its
\* pop or a clear; clear resolves and leaves the store empty from any
\* state; and has(k) resolves to whether k is in the store.
C16_HasTracksPresence ==
    [][~TimerRunning
       => /\ \A i \in 1..Len(map') :
                ~MapHas(map, map'[i].key)
                => /\ last'.op = "add" /\ last'.status = "resolved"
                   /\ last'.key = map'[i].key
          /\ \A i \in 1..Len(map) :
                ~MapHas(map', map[i].key)
                => \/ last'.op = "popThen" /\ last'.key = map[i].key
                   \/ last'.op = "clear"
                   \/ /\ last'.op = "add" /\ last'.key # map[i].key
                      /\ options.limit = Num(Len(map))
          /\ (last'.op = "add" /\ last'.status = "resolved")
             => MapHas(map', last'.key)
          /\ last'.op = "popThen" => ~MapHas(map', last'.key)
          /\ last'.op = "clear" => (last'.status = "resolved" /\ map' = <<>>)
          /\ last'.op = "has"
             => last'.ret = Bool(MapHas(map', last'.key))]_vars

\* has found a key absent on a full cache without lifetime: the key was
\* evicted or popped, or never added
C16_Witness ==
    /\ ~TimerRunning /\ PositiveLimit /\ Len(map) = options.limit.v
    /\ last.op = "has" /\ last.ret = Bool(FALSE)
    /\ ~MapHas(map, last.key)

\* C17: pop on an absent key rejects iff the policy in force (the
\* argument if one is given, else the constructor's throwOnEmpty) is
\* true, resolves to undefined otherwise, and leaves the store as it was.
C17_PopThrowPolicy ==
    [][(last'.op = "pop" /\ ~last'.existed)
       => /\ map' = map
          /\ IF EffectiveThrow(last')
             THEN last'.status = "rejected"
             ELSE last'.status = "resolved" /\ last'.ret = Undefined]_vars

\* the keys other than that of the call c which the step removes
RemovedOthers(c) ==
    {k \in MapKeys(map) : k # c.key /\ ~MapHas(map', k)}

\* C18: an add removes an entry of another key only if its own key is new
\* and the store holds limit entries, and then no more than one; an add
\* for a key that is present leaves every other key present.
C18_EvictionOnlyWhenExceeding ==
    [][last'.op = "add"
       => /\ RemovedOthers(last') # {}
             => (~last'.existed /\ options.limit = Num(Len(map)))
          /\ Cardinality(RemovedOthers(last')) <= 1]_vars

\* C19: with lifetime.duration = D, the store after a prune tick holds
\* no entry older than D and holds every entry that is not older than D,
\* whatever the number and order of expired and live entries before it.
C19_PruneRemovesExpired ==
    [][(TimerRunning /\ last'.op = "prune" /\ now' = now)
       => \A i \in 1..Len(map) :
             IF Expired(map[i])
             THEN ~MapHas(map', map[i].key)
             ELSE /\ MapHas(map', map[i].key)
                  /\ MapGet(map', map[i].key) = map[i]]_vars

\* C20: the prune tick that follows a resolved add(k, v, {lifetime: L}),
\* after any time has elapsed, removes k's entry if its age exceeds L and
\* keeps it otherwise, whatever the cache's own duration.
C20_PerEntryLifetime ==
    [][(/\ TimerRunning
        /\ last.op = "add" /\ last.status = "resolved"
        /\ last.addOptions.lifetime # Undefined
        /\ last'.op = "prune")
       => IF now - MapGet(map, last.key).timestamp > last.addOptions.lifetime.v
          THEN ~MapHas(map', last.key)
          ELSE MapHas(map', last.key)]_vars

\* the entry that was added under key with this timestamp is in the store
Stored(key, timestamp) ==
    \E i \in 1..Len(map) : map[i].key = key /\ map[i].timestamp = timestamp

\* C21: with lifetime.duration = D and a timer that keeps firing, every
\* entry whose age exceeds D leaves the store in the end (if no call
\* replaces or removes it first, a prune tick removes it), whatever the
\* number and order of the entries.
C21_PruningEventual ==
    \A key \in KeysUpTo(NumKeys), timestamp \in 0..MaxTime :
        (Stored(key, timestamp) /\ now - timestamp > options.lifetime.duration.v)
        ~> ~Stored(key, timestamp)

\* a prune tick has run and left an expired entry in the store: the
\* ticks that follow have to remove it
C21_Witness ==
    /\ TimerRunning /\ last.op = "prune"
    /\ Len(map) >= 1 /\ \A i \in 1..Len(map) : Expired(map[i])

\* C22: when add(k, v2) resolved after pop(k) was invoked on a key that
\* was present, and the callback of that pop runs next, k is in the store
\* with value v2 afterwards: the pop removes only the entry it returns.
C22_PopKeepsLaterAdd ==
    [][(/\ last.op = "add" /\ last.status = "resolved"
        /\ last'.op = "popThen" /\ last'.key = last.key)
       => /\ MapHas(map', last.key)
          /\ MapGet(map', last.key).value = last.arg]_vars

\* C23: when an add evicts an entry, the timestamp of the evicted entry
\* is at most the timestamp of every entry that remains, also after adds
\* that replaced a key and refreshed its timestamp.
C23_EvictsOldestByTimestamp ==
    [][last'.op = "add"
       => \A i \in 1..Len(map) :
             ~MapHas(map', map[i].key)
             => \A j \in 1..Len(map') :
                   map[i].timestamp <= map'[j].timestamp]_vars

====
